---------------------------- MODULE Spec2Model ----------------------------
(***************************************************************************)
(* A model of generator/generate.py (WebCV): the pagination of company     *)
(* groups into two-column pages, the grouping of work entries by company,  *)
(* the regex anonymizer, the date helpers, the sidebar contact block and   *)
(* the translation cache of main().                                        *)
(*                                                                         *)
(* Texts are sequences of one-character strings, so that the regular       *)
(* expressions of the source are computed character by character.          *)
(***************************************************************************)
EXTENDS Integers, Sequences, FiniteSets, TLC

VARIABLES
    pc,              \* position of the component under analysis
    grouped_work,    \* split_experiences_into_pages: its input, in dict order
    all_exp_groups,  \* list of (fragment, estimated height)
    gi,              \* index of the next element of all_exp_groups
    pages,           \* emitted (col1, col2) pairs
    col1,
    col2,
    col1_height,
    col2_height,
    closed,          \* heights seen by the last page close, <<>> if none yet
    work_list,       \* group_experiences_by_company: its input
    grouped,         \* and its result, in dict (insertion) order
    text_in,         \* anonymize_text: a text,
    text_once,       \* the text after one call
    text_twice,      \* and after a call on that result
    date_start,      \* calculate_duration, format_date: the date strings,
    date_end,
    date_lang,       \* the language,
    date_now,        \* the month of datetime.now(),
    format_out,      \* the result of format_date
    duration_out,    \* and of calculate_duration
    basics,          \* generate_html: the basics of the record,
    anonymize,       \* the anonymize flag,
    sidebars,        \* the contact blocks rendered so far
    run,             \* main: the invocations started so far
    cache_file,      \* <input>.en.json, beside the input
    hash_file,       \* <input>.en.hash
    input_file,      \* what this invocation finds at the input path
    model,
    input_hash,
    cache_valid,
    resume_data,
    lang,
    net_calls,       \* calls of the translation service by this invocation
    wrote,           \* the files this invocation has written
    exit_code,       \* -1 while it runs
    fatal,           \* the error it ended on
    translated_ok,   \* it reached 'Translation complete and cached!'
    previous,        \* input and model of the invocation before, if that
                     \* one translated and cached
    work_given,      \* generate_html: resume_data["work"] as it is passed in,
    resume_work,     \* and as the call leaves it (the entries are changed in place)
    gen_anonymize,
    gen_lang,
    gen_now,         \* the month of datetime.now()
    passes,          \* calls of anonymize_text behind each stored and rendered field
    page_1,          \* the company summaries of render_page_1
    detail_pages     \* the experience groups of render_detail_pages

pageVars == <<grouped_work, all_exp_groups, gi, pages, col1, col2,
              col1_height, col2_height, closed>>

groupVars == <<work_list, grouped>>

anonVars == <<text_in, text_once, text_twice>>

dateVars == <<date_start, date_end, date_lang, date_now, format_out, duration_out>>

sidebarVars == <<basics, anonymize, sidebars>>

mainVars == <<run, cache_file, hash_file, input_file, model, input_hash,
              cache_valid, resume_data, lang, net_calls, wrote, exit_code,
              fatal, translated_ok, previous>>

genVars == <<work_given, resume_work, gen_anonymize, gen_lang, gen_now, passes,
             page_1, detail_pages>>

vars == <<pc, pageVars, groupVars, anonVars, dateVars, sidebarVars, mainVars,
          genVars>>

notGenVars == <<pageVars, groupVars, anonVars, dateVars, sidebarVars, mainVars>>

notMainVars == <<pageVars, groupVars, anonVars, dateVars, sidebarVars, genVars>>

notPageVars == <<groupVars, anonVars, dateVars, sidebarVars,
    mainVars, genVars>>

notGroupVars == <<pageVars, anonVars, dateVars, sidebarVars,
    mainVars, genVars>>

notAnonVars == <<pageVars, groupVars, dateVars, sidebarVars,
    mainVars, genVars>>

notDateVars == <<pageVars, groupVars, anonVars, sidebarVars,
    mainVars, genVars>>

notSidebarVars == <<pageVars, groupVars, anonVars, dateVars,
    mainVars, genVars>>

\* the parts a specification does not exercise stay as they are
PagesIdle ==
    /\ grouped_work = <<>>
    /\ all_exp_groups = <<>>
    /\ gi = 0
    /\ pages = <<>>
    /\ col1 = <<>>
    /\ col2 = <<>>
    /\ col1_height = 0
    /\ col2_height = 0
    /\ closed = <<>>

GroupIdle == work_list = <<>> /\ grouped = <<>>

AnonIdle == text_in = <<>> /\ text_once = <<>> /\ text_twice = <<>>

DatesIdle ==
    /\ date_start = <<>>
    /\ date_end = <<>>
    /\ date_lang = "fr"
    /\ date_now = <<>>
    /\ format_out = <<>>
    /\ duration_out = <<>>

SidebarIdle == basics = <<>> /\ anonymize = FALSE /\ sidebars = <<>>

MainIdle ==
    /\ run = 0
    /\ cache_file = <<>>
    /\ hash_file = <<>>
    /\ input_file = <<>>
    /\ model = <<>>
    /\ input_hash = <<>>
    /\ cache_valid = FALSE
    /\ resume_data = <<>>
    /\ lang = "fr"
    /\ net_calls = 0
    /\ wrote = {}
    /\ exit_code = 0
    /\ fatal = "none"
    /\ translated_ok = FALSE
    /\ previous = <<>>

NoPasses == [name |-> 0, position |-> 0, summary |-> 0, highlights |-> 0,
             mission |-> 0]

GenIdle ==
    /\ work_given = <<>>
    /\ resume_work = <<>>
    /\ gen_anonymize = FALSE
    /\ gen_lang = "fr"
    /\ gen_now = <<>>
    /\ passes = [stored |-> NoPasses, page_1 |-> NoPasses, detail |-> NoPasses]
    /\ page_1 = <<>>
    /\ detail_pages = <<>>

-----------------------------------------------------------------------------
(* Bounds of the analysis *)

MaxGroups == 4
MaxEntries == 8
MaxChunks == 3
MaxWork == 3
MaxProfiles == 2
MaxRuns == 3
NumContents == 2
MaxGenWork == 2

-----------------------------------------------------------------------------
(* split_experiences_into_pages *)

MAX_HEIGHT_PER_COL == 255
AVG_EXP_HEIGHT == 35

\* The groups a dict of company -> entries can hold: company k has n entries.
\* group_experiences_by_company never builds an empty group.
GroupedWorkInputs ==
    UNION { [1..n -> 1..MaxEntries] : n \in 0..MaxGroups }

\* render_experience_group: the fragment opens with the company, which is the
\* dict key, so that fragments of different groups differ.
render_experience_group(company) == <<"exp-grp", company>>

\* lines 521-527
EstimateGroups(gw) ==
    [k \in 1..Len(gw) |->
        [html |-> render_experience_group(k), height |-> gw[k] * AVG_EXP_HEIGHT]]

FitsHeightIgnored(colHeight, height) == colHeight <= MAX_HEIGHT_PER_COL

\* lines 532 and 543
Fits(colHeight, height) == colHeight + height <= MAX_HEIGHT_PER_COL

PagesInit ==
    /\ pc = "loop"
    /\ grouped_work \in GroupedWorkInputs
    /\ all_exp_groups = EstimateGroups(grouped_work)
    /\ gi = 1
    /\ pages = <<>>
    /\ col1 = <<>>
    /\ col2 = <<>>
    /\ col1_height = 0
    /\ col2_height = 0
    /\ closed = <<>>
    /\ GroupIdle
    /\ AnonIdle
    /\ DatesIdle
    /\ SidebarIdle
    /\ MainIdle
    /\ GenIdle

\* lines 536-541 and 547-552: close the page in progress, open the next one
StartNewPage(g) ==
    /\ pages' = Append(pages, <<col1, col2>>)
    /\ col1' = <<g.html>>
    /\ col2' = <<>>
    /\ col1_height' = g.height
    /\ col2_height' = 0
    /\ closed' = <<col1_height, col2_height, g.height>>

AppendCol2Mutant(g) ==
    /\ col2' = col2
    /\ col2_height' = col2_height + g.height
    /\ UNCHANGED <<pages, col1, col1_height, closed>>

\* lines 533-534
AppendCol1(g) ==
    /\ col1' = Append(col1, g.html)
    /\ col1_height' = col1_height + g.height
    /\ UNCHANGED <<pages, col2, col2_height, closed>>

\* lines 544-545
AppendCol2(g) ==
    /\ col2' = Append(col2, g.html)
    /\ col2_height' = col2_height + g.height
    /\ UNCHANGED <<pages, col1, col1_height, closed>>

\* one iteration of the loop of lines 529-552, column 1 chosen and the group fits
PlaceCol1 ==
    /\ pc = "loop"
    /\ gi <= Len(all_exp_groups)
    /\ col1_height <= col2_height
    /\ Fits(col1_height, all_exp_groups[gi].height)
    /\ AppendCol1(all_exp_groups[gi])
    /\ gi' = gi + 1
    /\ UNCHANGED <<pc, grouped_work, all_exp_groups, notPageVars>>

\* column 1 chosen and the group does not fit
NewPageCol1 ==
    /\ pc = "loop"
    /\ gi <= Len(all_exp_groups)
    /\ col1_height <= col2_height
    /\ ~Fits(col1_height, all_exp_groups[gi].height)
    /\ StartNewPage(all_exp_groups[gi])
    /\ gi' = gi + 1
    /\ UNCHANGED <<pc, grouped_work, all_exp_groups, notPageVars>>

\* column 2 chosen and the group fits
PlaceCol2 ==
    /\ pc = "loop"
    /\ gi <= Len(all_exp_groups)
    /\ ~(col1_height <= col2_height)
    /\ Fits(col2_height, all_exp_groups[gi].height)
    /\ AppendCol2(all_exp_groups[gi])
    /\ gi' = gi + 1
    /\ UNCHANGED <<pc, grouped_work, all_exp_groups, notPageVars>>

NewPageCol2_balance_unchecked ==
    /\ pc = "loop"
    /\ gi <= Len(all_exp_groups)
    /\ ~Fits(col2_height, all_exp_groups[gi].height)
    /\ StartNewPage(all_exp_groups[gi])
    /\ gi' = gi + 1
    /\ UNCHANGED <<pc, grouped_work, all_exp_groups, notPageVars>>

\* column 2 chosen and the group does not fit
NewPageCol2 ==
    /\ pc = "loop"
    /\ gi <= Len(all_exp_groups)
    /\ ~(col1_height <= col2_height)
    /\ ~Fits(col2_height, all_exp_groups[gi].height)
    /\ StartNewPage(all_exp_groups[gi])
    /\ gi' = gi + 1
    /\ UNCHANGED <<pc, grouped_work, all_exp_groups, notPageVars>>

\* lines 554-558: the last page, if not empty, and the return
LastPage ==
    /\ pc = "loop"
    /\ gi > Len(all_exp_groups)
    /\ pages' = IF col1 # <<>> \/ col2 # <<>>
                THEN Append(pages, <<col1, col2>>)
                ELSE pages
    /\ pc' = "returned"
    /\ UNCHANGED <<grouped_work, all_exp_groups, gi, col1, col2,
                   col1_height, col2_height, closed, notPageVars>>

Init == PagesInit

Next == PlaceCol1 \/ NewPageCol1 \/ PlaceCol2 \/ NewPageCol2 \/ LastPage

Spec == Init /\ [][Next]_vars

-----------------------------------------------------------------------------
(* Properties of split_experiences_into_pages *)

RECURSIVE CountIn(_, _)
CountIn(s, x) ==
    IF s = <<>> THEN 0
    ELSE (IF Head(s) = x THEN 1 ELSE 0) + CountIn(Tail(s), x)

RECURSIVE SumOver(_, _, _)
SumOver(F(_), lo, hi) == IF lo > hi THEN 0 ELSE F(lo) + SumOver(F, lo + 1, hi)

\* how many times the fragment of company k stands on the emitted pages
Placed(k) ==
    LET f == render_experience_group(k)
        OnPage(p) == CountIn(pages[p][1], f) + CountIn(pages[p][2], f)
    IN SumOver(OnPage, 1, Len(pages))

FragmentsOnPages ==
    LET OnPage(p) == Len(pages[p][1]) + Len(pages[p][2])
    IN SumOver(OnPage, 1, Len(pages))

\* C1: when split_experiences_into_pages returns, the fragment of every input
\* group stands exactly once on the emitted pages (in one column of one page),
\* and the pages hold as many fragments as there are groups.
C1_EveryGroupPlacedOnce ==
    pc = "returned" =>
        /\ \A k \in 1..Len(grouped_work) : Placed(k) = 1
        /\ FragmentsOnPages = Len(grouped_work)

C1_Witness ==
    /\ pc = "returned"
    /\ Len(grouped_work) = MaxGroups
    /\ Len(pages) >= 2
    /\ \E p \in 1..Len(pages) : Len(pages[p][2]) >= 1

\* C2: no emitted page has both of its columns empty.
C2_EveryPageNonEmpty ==
    \A p \in 1..Len(pages) : pages[p][1] # <<>> \/ pages[p][2] # <<>>

\* C3: no group gives no page; one group higher than the column budget gives
\* exactly one page, the group alone in column 1 and column 2 empty.
C3_EdgeCases ==
    pc = "returned" =>
        /\ (Len(grouped_work) = 0 => pages = <<>>)
        /\ (/\ Len(grouped_work) = 1
            /\ grouped_work[1] * AVG_EXP_HEIGHT > MAX_HEIGHT_PER_COL
            => pages = << <<(<<render_experience_group(1)>>), <<>>>> >>)

\* the summed estimated height of the groups whose fragments stand in a column
RECURSIVE HeightOf(_)
HeightOf(col) ==
    IF col = <<>> THEN 0
    ELSE all_exp_groups[Head(col)[2]].height + HeightOf(Tail(col))

\* the columns emitted so far and the two in progress
Columns ==
    { pages[p][c] : p \in 1..Len(pages), c \in 1..2 } \cup {col1, col2}

\* C11: a column whose summed estimated height exceeds the budget of 255 holds
\* exactly one group; no column of two or more groups exceeds the budget.
C11_OverflowOnlyBySingleGroup ==
    \A col \in Columns :
        HeightOf(col) > MAX_HEIGHT_PER_COL => Len(col) = 1

C11_Witness ==
    /\ pc = "returned"
    /\ \E p \in 1..Len(pages) :
           /\ HeightOf(pages[p][1]) > MAX_HEIGHT_PER_COL
           /\ Len(pages[p][1]) = 1
           /\ Len(pages[p][2]) >= 2

\* C15: a page is closed only when the group in hand fits in neither column:
\* its height added to column 1 and added to column 2 both exceed 255.
C15_PageClosedOnlyWhenNeitherFits ==
    closed # <<>> =>
        /\ closed[1] + closed[3] > MAX_HEIGHT_PER_COL
        /\ closed[2] + closed[3] > MAX_HEIGHT_PER_COL

C15_Witness ==
    /\ closed # <<>>
    /\ closed[1] > closed[2]
    /\ closed[2] > 0
    /\ closed[3] <= MAX_HEIGHT_PER_COL

-----------------------------------------------------------------------------
(* Texts and the regular expressions of the source (module re, flags as in   *)
(* the source). A text is a sequence of one-character strings.              *)

UpperCase ==
    <<"A", "B", "C", "D", "E", "F", "G", "H", "I", "J", "K", "L", "M",
      "N", "O", "P", "Q", "R", "S", "T", "U", "V", "W", "X", "Y", "Z", "É">>

LowerCase ==
    <<"a", "b", "c", "d", "e", "f", "g", "h", "i", "j", "k", "l", "m",
      "n", "o", "p", "q", "r", "s", "t", "u", "v", "w", "x", "y", "z", "é">>

DigitChars == <<"0", "1", "2", "3", "4", "5", "6", "7", "8", "9">>

Range(f) == { f[k] : k \in DOMAIN f }

AsciiLetters == { UpperCase[k] : k \in 1..26 } \cup { LowerCase[k] : k \in 1..26 }

\* \w: letters (accented ones too), digits and the underscore
WordChars == Range(UpperCase) \cup Range(LowerCase) \cup Range(DigitChars) \cup {"_"}

\* \s
SpaceChars == {" ", "\t", "\n"}

\* re.IGNORECASE compares characters without their case
Fold(c) ==
    IF c \in Range(UpperCase)
    THEN LowerCase[CHOOSE k \in DOMAIN UpperCase : UpperCase[k] = c]
    ELSE c

InClass(cls, c) ==
    CASE cls = "s" -> c \in SpaceChars
      [] cls = "w" -> c \in WordChars
      [] cls = "notparen" -> c # ")"
      [] cls = "letter" -> c \in AsciiLetters

\* \b at position i (between text[i-1] and text[i])
AtWordBoundary(text, i) ==
    LET before == i > 1 /\ text[i - 1] \in WordChars
        after == i <= Len(text) /\ text[i] \in WordChars
    IN before # after

RECURSIVE RunLen(_, _, _)
RunLen(cls, text, i) ==
    IF i <= Len(text) /\ InClass(cls, text[i])
    THEN 1 + RunLen(cls, text, i + 1)
    ELSE 0

\* pattern elements
Lit(chars) == [k \in 1..Len(chars) |-> [t |-> "lit", c |-> chars[k]]]
WordB == <<[t |-> "b"]>>
One(cls) == <<[t |-> "one", cls |-> cls]>>
Many(cls, min) == <<[t |-> "many", cls |-> cls, min |-> min]>>
GroupOpen == <<[t |-> "open"]>>
GroupClose == <<[t |-> "close"]>>

\* a rule: a pattern and its replacement, which may end with group 1
Fixed(pattern, repl) == [pattern |-> pattern, repl |-> repl, group |-> FALSE]
Keeping(pattern, repl) == [pattern |-> pattern, repl |-> repl, group |-> TRUE]

NoMatch == [ok |-> FALSE, e |-> 0, cs |-> 0, ce |-> 0]

\* The match of pat[k..] at position i of text, as the backtracking matcher
\* finds it (a greedy repetition gives back one character at a time):
\* e is the position after the match, cs..ce-1 the span of group 1.
RECURSIVE MatchFrom(_, _, _, _)
RECURSIVE TryRun(_, _, _, _, _, _)
MatchFrom(pat, k, text, i) ==
    IF k > Len(pat) THEN [ok |-> TRUE, e |-> i, cs |-> 0, ce |-> 0]
    ELSE LET el == pat[k] IN
         CASE el.t = "lit" ->
                IF i <= Len(text) /\ Fold(text[i]) = Fold(el.c)
                THEN MatchFrom(pat, k + 1, text, i + 1)
                ELSE NoMatch
           [] el.t = "one" ->
                IF i <= Len(text) /\ InClass(el.cls, text[i])
                THEN MatchFrom(pat, k + 1, text, i + 1)
                ELSE NoMatch
           [] el.t = "b" ->
                IF AtWordBoundary(text, i)
                THEN MatchFrom(pat, k + 1, text, i)
                ELSE NoMatch
           [] el.t = "open" ->
                LET r == MatchFrom(pat, k + 1, text, i)
                IN IF r.ok THEN [r EXCEPT !.cs = i] ELSE r
           [] el.t = "close" ->
                LET r == MatchFrom(pat, k + 1, text, i)
                IN IF r.ok THEN [r EXCEPT !.ce = i] ELSE r
           [] el.t = "many" ->
                TryRun(pat, k, text, i, RunLen(el.cls, text, i), el.min)

TryRun(pat, k, text, i, n, min) ==
    IF n < min THEN NoMatch
    ELSE LET r == MatchFrom(pat, k + 1, text, i + n)
         IN IF r.ok THEN r ELSE TryRun(pat, k, text, i, n - 1, min)

\* the replacement of one match: a literal, then group 1 where the template
\* ends with \1
Expand(rule, text, r) ==
    rule.repl \o (IF rule.group THEN SubSeq(text, r.cs, r.ce - 1) ELSE <<>>)

\* re.sub(pattern, replacement, text): leftmost matches, none overlapping.
\* No pattern of the source matches the empty string.
RECURSIVE SubFrom(_, _, _)
SubFrom(rule, text, i) ==
    IF i > Len(text) THEN <<>>
    ELSE LET r == MatchFrom(rule.pattern, 1, text, i)
         IN IF r.ok /\ r.e > i
            THEN Expand(rule, text, r) \o SubFrom(rule, text, r.e)
            ELSE <<text[i]>> \o SubFrom(rule, text, i + 1)

re_sub(rule, text) == SubFrom(rule, text, 1)

\* str.strip()
RECURSIVE StripLeft(_)
StripLeft(text) ==
    IF text # <<>> /\ Head(text) \in SpaceChars THEN StripLeft(Tail(text)) ELSE text

RECURSIVE StripRight(_)
StripRight(text) ==
    IF text # <<>> /\ text[Len(text)] \in SpaceChars
    THEN StripRight(SubSeq(text, 1, Len(text) - 1))
    ELSE text

Strip(text) == StripRight(StripLeft(text))

-----------------------------------------------------------------------------
(* get_company_name and group_experiences_by_company *)

\* line 211: \s*\([^)]*\)
ParentheticalRule ==
    Fixed(Many("s", 0) \o Lit(<<"(">>) \o Many("notparen", 0) \o Lit(<<")">>),
          <<>>)

get_company_name_unstripped(work_entry) ==
    re_sub(ParentheticalRule, work_entry.name)

\* lines 207-212
get_company_name(work_entry) ==
    Strip(re_sub(ParentheticalRule, work_entry.name))

\* lines 234-237: the dict keeps its keys in insertion order; an entry is
\* known by its position in work_list
AddToGroup(g, company, i) ==
    IF \E k \in DOMAIN g : g[k].company = company
    THEN LET k == CHOOSE k \in DOMAIN g : g[k].company = company
         IN [g EXCEPT ![k].entries = Append(@, i)]
    ELSE Append(g, [company |-> company, entries |-> <<i>>])

RECURSIVE GroupFrom(_, _, _)
GroupFrom(wl, i, g) ==
    IF i > Len(wl) THEN g
    ELSE GroupFrom(wl, i + 1, AddToGroup(g, get_company_name(wl[i]), i))

\* lines 230-238
group_experiences_by_company(wl) == GroupFrom(wl, 1, <<>>)

\* the employer names of the analysed work lists
WorkNames == {
    <<"A">>,
    <<"A", " ", "(", "x", ")">>,
    <<" ", "A", "\t">>,
    <<"B">>,
    <<"B", "(", "y", ")", " ", "(", "z", ")">>,
    <<>>,
    <<"(", "x", ")">>,
    <<"A", " ", "(", "x">>,
    <<"A", " ", "(", "x", "(", "y", ")", ")">> }

WorkLists ==
    UNION { [1..n -> [name : WorkNames]] : n \in 0..MaxWork }

GroupInit ==
    /\ pc = "work"
    /\ work_list \in WorkLists
    /\ grouped = <<>>
    /\ PagesIdle
    /\ AnonIdle
    /\ DatesIdle
    /\ SidebarIdle
    /\ MainIdle
    /\ GenIdle

GroupExperiences ==
    /\ pc = "work"
    /\ grouped' = group_experiences_by_company(work_list)
    /\ pc' = "grouped"
    /\ UNCHANGED <<work_list, notGroupVars>>

GroupNext == GroupExperiences

SpecGroup == GroupInit /\ [][GroupNext]_vars

\* a text with no leading and no trailing whitespace
Trimmed(text) ==
    text = <<>> \/ (Head(text) \notin SpaceChars /\ text[Len(text)] \notin SpaceChars)

\* a text in which no "(" has a ")" after it
NoParenthetical(text) ==
    \A i, j \in DOMAIN text : i < j => ~(text[i] = "(" /\ text[j] = ")")

FirstOccurrence(company) ==
    CHOOSE i \in DOMAIN work_list :
        /\ get_company_name(work_list[i]) = company
        /\ \A j \in 1..(i - 1) : get_company_name(work_list[j]) # company

GroupSizes ==
    LET Size(k) == Len(grouped[k].entries)
    IN SumOver(Size, 1, Len(grouped))

\* C4: the groups partition the work list: every entry stands once, in the
\* group of its company name, a name with no parenthetical and no surrounding
\* whitespace; the group sizes add up to the number of entries; groups come in
\* the order of the first entry of each company, entries in source order.
C4_GroupingPartitions ==
    pc = "grouped" =>
        /\ \A i \in DOMAIN work_list :
              \E k \in DOMAIN grouped :
                  /\ CountIn(grouped[k].entries, i) = 1
                  /\ grouped[k].company = get_company_name(work_list[i])
                  /\ \A k2 \in DOMAIN grouped :
                        k2 # k => CountIn(grouped[k2].entries, i) = 0
        /\ GroupSizes = Len(work_list)
        /\ \A k \in DOMAIN grouped :
              /\ Trimmed(grouped[k].company)
              /\ NoParenthetical(grouped[k].company)
              /\ \A a, b \in DOMAIN grouped[k].entries :
                    a < b => grouped[k].entries[a] < grouped[k].entries[b]
        /\ \A k1, k2 \in DOMAIN grouped :
              k1 < k2 => FirstOccurrence(grouped[k1].company)
                            < FirstOccurrence(grouped[k2].company)

C4_Witness ==
    /\ pc = "grouped"
    /\ Len(work_list) = 3
    /\ Len(grouped) = 2
    /\ grouped[1].entries = <<1, 3>>
    /\ work_list[1].name # work_list[3].name
    /\ work_list[3].name # grouped[1].company

-----------------------------------------------------------------------------
(* anonymize_text and ANONYMIZATION_RULES *)

\* the words of the patterns and the replacements
T_Voyages_SNCF_com == <<"V", "o", "y", "a", "g", "e", "s", "-", "S", "N",
                        "C", "F", ".", "c", "o", "m">>
T_ButConforama == <<"B", "u", "t", "C", "o", "n", "f", "o", "r", "a", "m",
                    "a">>
T_LVMH == <<"L", "V", "M", "H">>
T_Beauty == <<"B", "e", "a", "u", "t", "y">>
T_Tech == <<"T", "e", "c", "h">>
T_Groupe == <<"G", "r", "o", "u", "p", "e">>
T_Caisse == <<"C", "a", "i", "s", "s", "e">>
T_Epargne == <<"E", "p", "a", "r", "g", "n", "e">>
T_Groupama == <<"G", "r", "o", "u", "p", "a", "m", "a">>
T_Natixis == <<"N", "a", "t", "i", "x", "i", "s">>
T_Generali == <<"G", "e", "n", "e", "r", "a", "l", "i">>
T_Societe == <<"S", "o", "c", "i", "é", "t", "é">>
T_Generale == <<"G", "é", "n", "é", "r", "a", "l", "e">>
T_GE == <<"G", "E">>
T_Money == <<"M", "o", "n", "e", "y">>
T_Bank == <<"B", "a", "n", "k">>
T_Financement == <<"F", "i", "n", "a", "n", "c", "e", "m", "e", "n", "t">>
T_Mission == <<"M", "i", "s", "s", "i", "o", "n">>
T_ClientTransports == <<"C", "l", "i", "e", "n", "t", " ", "T", "r", "a",
                        "n", "s", "p", "o", "r", "t", "s">>
T_ClientDistribution == <<"C", "l", "i", "e", "n", "t", " ", "D", "i", "s",
                          "t", "r", "i", "b", "u", "t", "i", "o", "n">>
T_ClientLuxe == <<"C", "l", "i", "e", "n", "t", " ", "L", "u", "x", "e">>
T_ClientBanque == <<"C", "l", "i", "e", "n", "t", " ", "B", "a", "n", "q",
                    "u", "e">>
T_ClientAssurances == <<"C", "l", "i", "e", "n", "t", " ", "A", "s", "s",
                        "u", "r", "a", "n", "c", "e", "s">>
T_ClientPrefix == <<"C", "l", "i", "e", "n", "t", " ">>
T_MissionPrefix == <<"M", "i", "s", "s", "i", "o", "n", " ">>

Spaces == Many("s", 1)
CaisseDEpargne ==
    Lit(T_Caisse) \o Spaces \o Lit(<<"d", "'">>) \o Lit(T_Epargne)

\* lines 80-102, in the order of the source
ANONYMIZATION_RULES == <<
    Fixed(WordB \o Lit(T_Voyages_SNCF_com) \o WordB, T_ClientTransports),
    Fixed(WordB \o Lit(T_ButConforama) \o WordB, T_ClientDistribution),
    Fixed(WordB \o Lit(T_LVMH) \o Spaces \o Lit(T_Beauty) \o Spaces
            \o Lit(T_Tech) \o WordB, T_ClientLuxe),
    Fixed(WordB \o Lit(T_LVMH) \o WordB, T_ClientLuxe),
    Fixed(WordB \o Lit(T_Groupe) \o Spaces \o CaisseDEpargne \o WordB,
          T_ClientBanque),
    Keeping(WordB \o Lit(T_Groupe) \o Spaces \o GroupOpen \o Many("w", 1)
            \o GroupClose \o WordB, T_ClientPrefix),
    Fixed(WordB \o Lit(T_Groupama) \o WordB, T_ClientAssurances),
    Fixed(WordB \o Lit(T_Natixis) \o WordB, T_ClientBanque),
    Fixed(WordB \o Lit(T_Generali) \o WordB, T_ClientAssurances),
    Fixed(WordB \o Lit(T_Societe) \o Spaces \o Lit(T_Generale) \o WordB,
          T_ClientBanque),
    Fixed(WordB \o Lit(T_GE) \o Spaces \o Lit(T_Money) \o Spaces
            \o Lit(T_Bank) \o WordB, T_ClientBanque),
    Fixed(WordB \o CaisseDEpargne \o Spaces \o Lit(T_Financement) \o WordB,
          T_ClientBanque),
    Fixed(WordB \o CaisseDEpargne \o WordB, T_ClientBanque),
    Keeping(WordB \o Lit(T_Mission) \o Spaces \o GroupOpen \o One("letter")
            \o Many("notparen", 1) \o GroupClose \o WordB, T_MissionPrefix) >>

\* lines 190-195: every rule in turn, each on the result of the one before
RECURSIVE ApplyRules(_, _, _)
ApplyRules(rules, k, text) ==
    IF k > Len(rules) THEN text
    ELSE ApplyRules(rules, k + 1, re_sub(rules[k], text))

anonymize_text(text) == ApplyRules(ANONYMIZATION_RULES, 1, text)

\* the pieces the analysed texts are made of
AnonChunks == <<
    <<"G", "r", "o", "u", "p", "e", " ">>,
    <<"G", "R", "O", "U", "P", "E", " ", "\t">>,
    <<"L", "V", "M", "H">>,
    <<" ", "B", "e", "a", "u", "t", "y", " ", "T", "e", "c", "h">>,
    <<"C", "a", "i", "s", "s", "e", " ", "d", "'", "E", "p", "a", "r", "g",
      "n", "e">>,
    <<" ", "F", "i", "n", "a", "n", "c", "e", "m", "e", "n", "t">>,
    <<"N", "a", "t", "i", "x", "i", "s">>,
    <<"M", "i", "s", "s", "i", "o", "n", " ">>,
    <<"F", "o", "o">>,
    <<" ", "(">>,
    <<")">>,
    <<"V", "o", "y", "a", "g", "e", "s", "-", "S", "N", "C", "F", ".", "c",
      "o", "m">>,
    <<"B", "u", "t", "C", "o", "n", "f", "o", "r", "a", "m", "a">>,
    <<"G", "r", "o", "u", "p", "a", "m", "a">>,
    <<"G", "e", "n", "e", "r", "a", "l", "i">>,
    <<"S", "o", "c", "i", "é", "t", "é", " ", "G", "é", "n", "é", "r", "a",
      "l", "e">>,
    <<"G", "E", " ", "M", "o", "n", "e", "y", " ", "B", "a", "n", "k">>,
    <<" ">>,
    <<"x">> >>

RECURSIVE Flatten(_)
Flatten(ss) == IF ss = <<>> THEN <<>> ELSE Head(ss) \o Flatten(Tail(ss))

\* the texts of at most MaxChunks pieces
AnonTexts ==
    { Flatten([k \in 1..Len(f) |-> AnonChunks[f[k]]]) :
        f \in UNION { [1..n -> DOMAIN AnonChunks] : n \in 0..MaxChunks } }

AnonInit ==
    /\ pc = "text"
    /\ text_in \in AnonTexts
    /\ text_once = <<>>
    /\ text_twice = <<>>
    /\ PagesIdle
    /\ GroupIdle
    /\ DatesIdle
    /\ SidebarIdle
    /\ MainIdle
    /\ GenIdle

\* a first call of anonymize_text (generate_html, lines 679-684)
AnonymizeOnce ==
    /\ pc = "text"
    /\ text_once' = anonymize_text(text_in)
    /\ pc' = "anonymized"
    /\ UNCHANGED <<text_in, text_twice, notAnonVars>>

\* a call on the anonymized text (render_experience_group, lines 585-594)
AnonymizeAgain ==
    /\ pc = "anonymized"
    /\ text_twice' = anonymize_text(text_once)
    /\ pc' = "anonymized twice"
    /\ UNCHANGED <<text_in, text_once, notAnonVars>>

AnonNext == AnonymizeOnce \/ AnonymizeAgain

SpecAnon == AnonInit /\ [][AnonNext]_vars

\* C5: a second call of anonymize_text changes nothing.
C5_Idempotent == pc = "anonymized twice" => text_twice = text_once

-----------------------------------------------------------------------------
(* parse_date, format_date and calculate_duration *)

\* lines 105-142, the entries the date helpers read
LABELS_fr ==
    [present |-> <<"P", "r", "é", "s", "e", "n", "t">>,
     months |-> <<"m", "o", "i", "s">>,
     year |-> <<"a", "n">>,
     years |-> <<"a", "n", "s">>,
     months_list |->
            << <<"J", "a", "n">>,
               <<"F", "é", "v">>,
               <<"M", "a", "r">>,
               <<"A", "v", "r">>,
               <<"M", "a", "i">>,
               <<"J", "u", "n">>,
               <<"J", "u", "l">>,
               <<"A", "o", "û", "t">>,
               <<"S", "e", "p">>,
               <<"O", "c", "t">>,
               <<"N", "o", "v">>,
               <<"D", "é", "c">> >>]

LABELS_en ==
    [present |-> <<"P", "r", "e", "s", "e", "n", "t">>,
     months |-> <<"m", "o", "n", "t", "h", "s">>,
     year |-> <<"y", "e", "a", "r">>,
     years |-> <<"y", "e", "a", "r", "s">>,
     months_list |->
            << <<"J", "a", "n">>,
               <<"F", "e", "b">>,
               <<"M", "a", "r">>,
               <<"A", "p", "r">>,
               <<"M", "a", "y">>,
               <<"J", "u", "n">>,
               <<"J", "u", "l">>,
               <<"A", "u", "g">>,
               <<"S", "e", "p">>,
               <<"O", "c", "t">>,
               <<"N", "o", "v">>,
               <<"D", "e", "c">> >>]

LABELS(language) == IF language = "fr" THEN LABELS_fr ELSE LABELS_en

\* None, where a field of the record is null
NoneValue == <<"None">>

\* what Python takes for false: None and the empty string
Falsy(str) == str = <<>> \/ str = NoneValue

IsDigit(c) == c \in Range(DigitChars)

DigitVal(c) == (CHOOSE k \in DOMAIN DigitChars : DigitChars[k] = c) - 1

\* no datetime: parse_date returned None
NoDate == [year |-> 0, month |-> 0]

\* datetime.strptime(date_str, "%Y-%m"): four digits, a dash, then a month
\* written 1[0-2], 0[1-9] or [1-9], and nothing else; year 0 is no datetime
strptime_Y_m(str) ==
    LET n == Len(str)
        shaped == /\ n \in {6, 7}
                  /\ \A k \in 1..4 : IsDigit(str[k])
                  /\ str[5] = "-"
                  /\ \A k \in 6..n : IsDigit(str[k])
        year == DigitVal(str[1]) * 1000 + DigitVal(str[2]) * 100
                    + DigitVal(str[3]) * 10 + DigitVal(str[4])
        month == IF n = 6 THEN DigitVal(str[6])
                 ELSE DigitVal(str[6]) * 10 + DigitVal(str[7])
    IN IF shaped /\ year >= 1 /\ month \in 1..12
       THEN [year |-> year, month |-> month]
       ELSE NoDate

\* lines 145-152
parse_date(date_str) ==
    IF Falsy(date_str) THEN NoDate ELSE strptime_Y_m(date_str)

\* str(n) of an integer
RECURSIVE NatText(_)
NatText(n) ==
    IF n < 10 THEN <<DigitChars[n + 1]>>
    ELSE NatText(n \div 10) \o <<DigitChars[(n % 10) + 1]>>

IntText(n) == IF n < 0 THEN <<"-">> \o NatText(-n) ELSE NatText(n)

\* lines 155-165
format_date(date_str, language) ==
    IF Falsy(date_str) THEN LABELS(language).present
    ELSE LET dt == parse_date(date_str)
         IN IF dt = NoDate THEN date_str
            ELSE LABELS(language).months_list[dt.month] \o <<" ">> \o IntText(dt.year)

\* the exception of line 176 when end_dt is None
AttributeError == <<"AttributeError">>

calculate_duration_always_plural(start, end, language, now) ==
    LET start_dt == parse_date(start)
        end_dt == IF ~Falsy(end) THEN parse_date(end) ELSE now
        months == (end_dt.year - start_dt.year) * 12 + (end_dt.month - start_dt.month)
        years == months \div 12
        remaining_months == months % 12
        lbl == LABELS(language)
    IN IF start_dt = NoDate THEN <<>>
       ELSE IF end_dt = NoDate THEN AttributeError
       ELSE IF years = 0 THEN IntText(remaining_months) \o <<" ">> \o lbl.months
       ELSE IF remaining_months = 0 THEN IntText(years) \o <<" ">> \o lbl.years
       ELSE IntText(years) \o <<" ">> \o lbl.years \o <<" ">>
                \o IntText(remaining_months) \o <<" ">> \o lbl.months

\* lines 168-187; now is datetime.now(), read when end is empty or None
calculate_duration(start, end, language, now) ==
    LET start_dt == parse_date(start)
        end_dt == IF ~Falsy(end) THEN parse_date(end) ELSE now
        months == (end_dt.year - start_dt.year) * 12 + (end_dt.month - start_dt.month)
        years == months \div 12
        remaining_months == months % 12
        lbl == LABELS(language)
        year_label == IF years = 1 THEN lbl.year ELSE lbl.years
    IN IF start_dt = NoDate THEN <<>>
       ELSE IF end_dt = NoDate THEN AttributeError
       ELSE IF years = 0 THEN IntText(remaining_months) \o <<" ">> \o lbl.months
       ELSE IF remaining_months = 0 THEN IntText(years) \o <<" ">> \o year_label
       ELSE IntText(years) \o <<" ">> \o year_label \o <<" ">>
                \o IntText(remaining_months) \o <<" ">> \o lbl.months

\* the date strings of the analysis: well-formed, malformed, empty and None
DateStrings == {
    <<"2", "0", "2", "0", "-", "0", "1">>,
    <<"2", "0", "2", "1", "-", "0", "7">>,
    <<"2", "0", "2", "1", "-", "0", "1">>,
    <<"2", "0", "2", "0", "-", "0", "4">>,
    <<"2", "0", "1", "8", "-", "1", "1">>,
    <<"2", "0", "2", "0", "-", "1">>,
    <<"2", "0", "2", "0">>,
    <<"2", "0", "2", "0", "-", "1", "3">>,
    <<"2", "0", "2", "0", "-", "0", "0">>,
    <<"2", "0", "2", "0", "-", "0", "1", "-", "0", "5">>,
    <<" ", "2", "0", "2", "0", "-", "0", "1">>,
    <<>>,
    NoneValue }

\* the months datetime.now() may fall in
Nows == { [year |-> 2026, month |-> 11], [year |-> 2021, month |-> 3] }

NotCalled == <<"not called">>

DatesInit ==
    /\ pc = "dates"
    /\ date_start \in DateStrings
    /\ date_end \in DateStrings
    /\ date_lang \in {"fr", "en"}
    /\ date_now \in Nows
    /\ format_out = NotCalled
    /\ duration_out = NotCalled
    /\ PagesIdle
    /\ GroupIdle
    /\ AnonIdle
    /\ SidebarIdle
    /\ MainIdle
    /\ GenIdle

\* format_date(date_end, lang), as in lines 462 and 610
FormatDate ==
    /\ pc = "dates"
    /\ format_out = NotCalled
    /\ format_out' = format_date(date_end, date_lang)
    /\ UNCHANGED <<pc, date_start, date_end, date_lang, date_now, duration_out,
                   notDateVars>>

\* calculate_duration(start, end, lang), as in lines 453 and 602
CalculateDuration ==
    /\ pc = "dates"
    /\ duration_out = NotCalled
    /\ duration_out' = calculate_duration(date_start, date_end, date_lang, date_now)
    /\ UNCHANGED <<pc, date_start, date_end, date_lang, date_now, format_out,
                   notDateVars>>

DatesNext == FormatDate \/ CalculateDuration

SpecDates == DatesInit /\ [][DatesNext]_vars

Text_1_year_6_months == <<"1", " ", "y", "e", "a", "r", " ", "6", " ", "m", "o", "n", "t", "h", "s">>

Text_1_year == <<"1", " ", "y", "e", "a", "r">>

Text_3_months == <<"3", " ", "m", "o", "n", "t", "h", "s">>

D_2020_01 == <<"2", "0", "2", "0", "-", "0", "1">>
D_2021_07 == <<"2", "0", "2", "1", "-", "0", "7">>
D_2021_01 == <<"2", "0", "2", "1", "-", "0", "1">>
D_2020_04 == <<"2", "0", "2", "0", "-", "0", "4">>

\* the result the claim describes for m whole months
DurationText(m, language) ==
    LET years == m \div 12
        rem == m % 12
        lbl == LABELS(language)
        y == IntText(years) \o <<" ">> \o (IF years = 1 THEN lbl.year ELSE lbl.years)
        r == IntText(rem) \o <<" ">> \o lbl.months
    IN IF years = 0 THEN r
       ELSE IF rem = 0 THEN y
       ELSE y \o <<" ">> \o r

\* C7: with two valid dates, start not after end, calculate_duration renders
\* m = (end.year - start.year) * 12 + (end.month - start.month) months as
\* 'rem months', 'years year(s)' or 'years year(s) rem months'; in English
\* 2020-01..2021-07 is '1 year 6 months', 2020-01..2021-01 is '1 year' and
\* 2020-01..2020-04 is '3 months'.
C7_DurationRendering ==
    duration_out # NotCalled =>
        LET s == parse_date(date_start)
            e == parse_date(date_end)
            m == (e.year - s.year) * 12 + (e.month - s.month)
        IN /\ (s # NoDate /\ e # NoDate /\ m >= 0
                  => duration_out = DurationText(m, date_lang))
           /\ (date_lang = "en" /\ date_start = D_2020_01 =>
                  /\ date_end = D_2021_07 => duration_out = Text_1_year_6_months
                  /\ date_end = D_2021_01 => duration_out = Text_1_year
                  /\ date_end = D_2020_04 => duration_out = Text_3_months)

C7_Witness ==
    /\ date_lang = "en"
    /\ date_start = D_2020_01
    /\ date_end = D_2021_01
    /\ duration_out = Text_1_year

\* C8: format_date returns a malformed date string unchanged, and
\* calculate_duration raises for no pair of strings and returns the empty
\* string when the start does not parse.
C8_UnparseableDateNeverFatal ==
    /\ (/\ format_out # NotCalled
        /\ ~Falsy(date_end)
        /\ parse_date(date_end) = NoDate
        => format_out = date_end)
    /\ duration_out # AttributeError
    /\ (duration_out # NotCalled /\ parse_date(date_start) = NoDate
        => duration_out = <<>>)

-----------------------------------------------------------------------------
(* render_sidebar: the contact block, on page 1 and on the detail pages *)

StartsWithAt(text, i, old) ==
    /\ i + Len(old) - 1 <= Len(text)
    /\ \A k \in 1..Len(old) : text[i + k - 1] = old[k]

\* str.replace(old, new), old not empty
RECURSIVE ReplaceFrom(_, _, _, _)
ReplaceFrom(text, i, old, new) ==
    IF i > Len(text) THEN <<>>
    ELSE IF StartsWithAt(text, i, old)
         THEN new \o ReplaceFrom(text, i + Len(old), old, new)
         ELSE <<text[i]>> \o ReplaceFrom(text, i + 1, old, new)

Replace(text, old, new) == ReplaceFrom(text, 1, old, new)

T_https == <<"h", "t", "t", "p", "s", ":", "/", "/">>
T_http == <<"h", "t", "t", "p", ":", "/", "/">>
T_linkedin_in == <<"l", "i", "n", "k", "e", "d", "i", "n", ".", "c", "o", "m", "/", "i", "n", "/">>
T_France == <<",", " ", "F", "r", "a", "n", "c", "e">>
T_LinkedIn == <<"L", "i", "n", "k", "e", "d", "I", "n">>
T_GitHub == <<"G", "i", "t", "H", "u", "b">>

Span(text) == [tag |-> "span", text |-> text]
Anchor(text) == [tag |-> "a", text |-> text]

\* lines 375-379
RECURSIVE ProfileItems(_)
ProfileItems(profiles) ==
    IF profiles = <<>> THEN <<>>
    ELSE (IF Head(profiles).network = T_LinkedIn
          THEN <<Anchor(T_linkedin_in \o Head(profiles).username)>>
          ELSE <<>>) \o ProfileItems(Tail(profiles))

contact_items_email_kept(b, anon) ==
    (IF ~anon /\ ~Falsy(b.phone) THEN <<Span(b.phone)>> ELSE <<>>)
    \o (IF ~Falsy(b.email) THEN <<Span(b.email)>> ELSE <<>>)
    \o (IF ~Falsy(b.url)
        THEN <<Anchor(Replace(Replace(b.url, T_https, <<>>), T_http, <<>>))>>
        ELSE <<>>)
    \o ProfileItems(b.profiles)
    \o (IF ~Falsy(b.city) THEN <<Span(b.city \o T_France)>> ELSE <<>>)

\* lines 366-383 of render_sidebar: the items of the contact block, in order;
\* a key the record lacks reads as None
contact_items(b, anon) ==
    (IF ~anon /\ ~Falsy(b.phone) THEN <<Span(b.phone)>> ELSE <<>>)
    \o (IF ~anon /\ ~Falsy(b.email) THEN <<Span(b.email)>> ELSE <<>>)
    \o (IF ~Falsy(b.url)
        THEN <<Anchor(Replace(Replace(b.url, T_https, <<>>), T_http, <<>>))>>
        ELSE <<>>)
    \o ProfileItems(b.profiles)
    \o (IF ~Falsy(b.city) THEN <<Span(b.city \o T_France)>> ELSE <<>>)

\* the values of the basics record in the analysis
PhoneValues == { NoneValue, <<>>, <<"+", "3", "3", " ", "6">> }
EmailValues == { NoneValue, <<>>, <<"a", "@", "b", ".", "f", "r">> }
UrlValues == { NoneValue, <<"h", "t", "t", "p", "s", ":", "/", "/", "c", "v", ".", "f", "r">>,
               <<"h", "t", "t", "p", ":", "/", "/", "c", "v", ".", "f", "r">>,
               <<"c", "v", ".", "f", "r">> }
CityValues == { NoneValue, <<"P", "a", "r", "i", "s">> }
ProfileValues ==
    { [network |-> T_LinkedIn, username |-> <<"j", "d">>],
      [network |-> T_GitHub, username |-> <<"j", "d", "o", "e">>] }

BasicsValues ==
    [phone : PhoneValues, email : EmailValues, url : UrlValues, city : CityValues,
     profiles : UNION { [1..n -> ProfileValues] : n \in 0..MaxProfiles }]

SidebarInit ==
    /\ pc = "generate_html"
    /\ basics \in BasicsValues
    /\ anonymize \in BOOLEAN
    /\ sidebars = <<>>
    /\ PagesIdle
    /\ GroupIdle
    /\ AnonIdle
    /\ DatesIdle
    /\ MainIdle
    /\ GenIdle

\* render_page_1, line 419: the sidebar of page 1
RenderPage1 ==
    /\ pc = "generate_html"
    /\ sidebars' = Append(sidebars, contact_items(basics, anonymize))
    /\ pc' = "page 1 rendered"
    /\ UNCHANGED <<basics, anonymize, notSidebarVars>>

\* render_detail_pages, line 633: the sidebar every detail page repeats
RenderDetailPages ==
    /\ pc = "page 1 rendered"
    /\ sidebars' = Append(sidebars, contact_items(basics, anonymize))
    /\ pc' = "detail pages rendered"
    /\ UNCHANGED <<basics, anonymize, notSidebarVars>>

SidebarNext == RenderPage1 \/ RenderDetailPages

SpecSidebar == SidebarInit /\ [][SidebarNext]_vars

\* sub stands somewhere in text
Contains(text, sub) == \E i \in 1..(Len(text) + 1) : StartsWithAt(text, i, sub)

ShownIn(block, value) == \E k \in DOMAIN block : Contains(block[k].text, value)

\* C6: with anonymization, no contact block shows the phone or the email of
\* the record; without it, each of the two that the record holds is an item
\* of every contact block.
C6_ContactSuppressed ==
    \A p \in DOMAIN sidebars :
        /\ anonymize =>
              /\ ~Falsy(basics.phone) => ~ShownIn(sidebars[p], basics.phone)
              /\ ~Falsy(basics.email) => ~ShownIn(sidebars[p], basics.email)
        /\ ~anonymize =>
              /\ ~Falsy(basics.phone) =>
                    \E k \in DOMAIN sidebars[p] : sidebars[p][k] = Span(basics.phone)
              /\ ~Falsy(basics.email) =>
                    \E k \in DOMAIN sidebars[p] : sidebars[p][k] = Span(basics.email)

C6_Witness ==
    /\ anonymize
    /\ ~Falsy(basics.phone)
    /\ ~Falsy(basics.email)
    /\ Len(sidebars) = 2
    /\ Len(sidebars[2]) = 4

-----------------------------------------------------------------------------
(* generate_html: the work entries through anonymization, the company       *)
(* summaries of page 1 and the experience groups of the detail pages. The   *)
(* arrangement of the groups on pages is split_experiences_into_pages above; *)
(* logo, colour and the page template add no text of the work entries.      *)

\* str.split("(")[0]
RECURSIVE BeforeParen(_)
BeforeParen(text) ==
    IF text = <<>> \/ Head(text) = "(" THEN <<>>
    ELSE <<Head(text)>> \o BeforeParen(Tail(text))

\* sep.join(texts)
RECURSIVE Join(_, _)
Join(sep, texts) ==
    IF texts = <<>> THEN <<>>
    ELSE IF Len(texts) = 1 THEN texts[1]
    ELSE texts[1] \o sep \o Join(sep, Tail(texts))

\* list(dict.fromkeys(items)): the first occurrence of each, in order
RECURSIVE Distinct(_, _)
Distinct(items, seen) ==
    IF items = <<>> THEN <<>>
    ELSE IF Head(items) \in seen THEN Distinct(Tail(items), seen)
    ELSE <<Head(items)>> \o Distinct(Tail(items), seen \cup {Head(items)})

\* items[:n]
Take(items, n) == SubSeq(items, 1, IF Len(items) < n THEN Len(items) ELSE n)

\* the order of the characters of a date string by code point
DateChars == <<"-", "0", "1", "2", "3", "4", "5", "6", "7", "8", "9">>

CodePoint(c) == CHOOSE k \in DOMAIN DateChars : DateChars[k] = c

\* a < b for str
RECURSIVE StrLess(_, _)
StrLess(a, b) ==
    IF b = <<>> THEN FALSE
    ELSE IF a = <<>> THEN TRUE
    ELSE IF Head(a) = Head(b) THEN StrLess(Tail(a), Tail(b))
    ELSE CodePoint(Head(a)) < CodePoint(Head(b))

\* min(items) and max(items) of a non-empty list of str
RECURSIVE StrMin(_)
StrMin(items) ==
    IF Len(items) = 1 THEN items[1]
    ELSE LET m == StrMin(Tail(items))
         IN IF StrLess(m, Head(items)) THEN m ELSE Head(items)

RECURSIVE StrMax(_)
StrMax(items) ==
    IF Len(items) = 1 THEN items[1]
    ELSE LET m == StrMax(Tail(items))
         IN IF StrLess(Head(items), m) THEN m ELSE Head(items)

\* [x for x in items if keep(x)]
RECURSIVE Filter(_, _)
Filter(Keep(_), items) ==
    IF items = <<>> THEN <<>>
    ELSE (IF Keep(Head(items)) THEN <<Head(items)>> ELSE <<>>)
            \o Filter(Keep, Tail(items))

T_Environnement == <<"E", "n", "v", "i", "r", "o", "n", "n", "e", "m", "e", "n", "t", ":">>
\* " • ", the bullet written as a middle dot
T_bullet == <<" ", "·", " ">>
T_br_br == <<"<", "b", "r", ">", "<", "b", "r", ">">>

\* re.search(r'\(([^)]+)\)', text): group 1 of the first match, "" where the
\* source leaves mission empty
MissionPattern ==
    Lit(<<"(">>) \o GroupOpen \o Many("notparen", 1) \o GroupClose \o Lit(<<")">>)

RECURSIVE SearchFrom(_, _, _)
SearchFrom(pat, text, i) ==
    IF i > Len(text) + 1 THEN <<>>
    ELSE LET r == MatchFrom(pat, 1, text, i)
         IN IF r.ok THEN SubSeq(text, r.cs, r.ce - 1)
            ELSE SearchFrom(pat, text, i + 1)

\* lines 571-580
mission_of(exp) ==
    IF Contains(exp.name, <<"(">>) THEN SearchFrom(MissionPattern, exp.name, 1)
    ELSE IF Contains(exp.position, T_Mission)
         THEN SearchFrom(MissionPattern, exp.position, 1)
         ELSE <<>>

\* lines 679-684: the rules on the four text fields of one entry
anonymize_entry(work_entry) ==
    [work_entry EXCEPT
        !.name = anonymize_text(@),
        !.position = anonymize_text(@),
        !.summary = anonymize_text(@),
        !.highlights = [k \in DOMAIN @ |-> anonymize_text(@[k])]]

IsEnv(h) == StartsWithAt(h, 1, T_Environnement)

\* lines 436-443: summary, then at most two highlights that are no environment
RECURSIVE descriptions_of(_, _)
descriptions_of(work, indices) ==
    IF indices = <<>> THEN <<>>
    ELSE LET exp == work[Head(indices)]
             NotEnv(h) == ~IsEnv(h)
             non_env_highlights == Filter(NotEnv, exp.highlights)
         IN (IF exp.summary # <<>> THEN <<exp.summary>> ELSE <<>>)
              \o Take(non_env_highlights, 2)
              \o descriptions_of(work, Tail(indices))

\* lines 424-465: the summary of one company group
company_summary(work, group, anon, language, now) ==
    LET experiences == [k \in DOMAIN group.entries |-> work[group.entries[k]]]
        Truthy(d) == ~Falsy(d)
        all_starts == Filter(Truthy, [k \in DOMAIN experiences |-> experiences[k].startDate])
        all_ends == Filter(Truthy, [k \in DOMAIN experiences |-> experiences[k].endDate])
        earliest_start == IF all_starts # <<>> THEN StrMin(all_starts) ELSE <<>>
        latest_end == IF all_ends # <<>> THEN StrMax(all_ends) ELSE <<>>
        roles == [k \in DOMAIN experiences |-> Strip(BeforeParen(experiences[k].position))]
        roles_str == Join(T_bullet, Distinct(roles, {}))
        description == Join(T_br_br, Take(descriptions_of(work, group.entries), 3))
    IN [company |-> group.company,
        experiences |-> group.entries,
        period |-> <<format_date(earliest_start, language),
                     format_date(latest_end, language)>>,
        duration |-> calculate_duration(earliest_start, latest_end, language, now),
        roles |-> IF anon THEN anonymize_text(roles_str) ELSE roles_str,
        description |-> IF anon THEN anonymize_text(description) ELSE description]

\* lines 596-604: one highlight of the list
render_highlight(highlight, anon) ==
    LET h == IF anon THEN anonymize_text(highlight) ELSE highlight
    IN IF IsEnv(h)
       THEN [env |-> TRUE, text |-> Strip(Replace(h, T_Environnement, <<>>))]
       ELSE [env |-> FALSE, text |-> h]

\* lines 569-613: one experience of a group
render_experience(exp, anon, language, now) ==
    LET mission == mission_of(exp)
        position == Strip(BeforeParen(exp.position))
    IN [mission |-> IF anon THEN anonymize_text(mission) ELSE mission,
        position |-> IF anon THEN anonymize_text(position) ELSE position,
        dates |-> <<format_date(exp.startDate, language),
                    format_date(exp.endDate, language)>>,
        duration |-> calculate_duration(exp.startDate, exp.endDate, language, now),
        highlights |-> [k \in DOMAIN exp.highlights |->
                            render_highlight(exp.highlights[k], anon)]]

\* lines 561-618
render_group(work, group, anon, language, now) ==
    [company |-> group.company,
     exps |-> [k \in DOMAIN group.entries |->
                  render_experience(work[group.entries[k]], anon, language, now)]]

\* the entries of the analysis: what they say, and when
T_A == <<"A">>
T_Generali_mission == <<"G", "e", "n", "e", "r", "a", "l", "i", " ", "(", "G", "r", "o", "u", "p", "e", " ", "G", "r", "o", "u", "p", "e", " ", "x", ")">>
T_Dev_mission == <<"D", "e", "v", " ", "(", "M", "i", "s", "s", "i", "o", "n", " ", "y", ")">>
T_Groupe_Groupe_x == <<"G", "r", "o", "u", "p", "e", " ", "G", "r", "o", "u", "p", "e", " ", "x">>
T_Env_x == <<"E", "n", "v", "i", "r", "o", "n", "n", "e", "m", "e", "n", "t", ":", " ", "x">>
D_2019_03 == <<"2", "0", "1", "9", "-", "0", "3">>
D_2020_06 == <<"2", "0", "2", "0", "-", "0", "6">>
D_2021_09 == <<"2", "0", "2", "1", "-", "0", "9">>

EntryTexts == {
    [name |-> T_A, position |-> T_Dev_mission, summary |-> <<>>,
     highlights |-> <<>>],
    [name |-> T_Groupama, position |-> T_Groupe_Groupe_x, summary |-> T_Natixis,
     highlights |-> <<T_Env_x, T_Groupe_Groupe_x>>],
    [name |-> T_Generali_mission, position |-> T_Dev_mission, summary |-> <<>>,
     highlights |-> <<T_Groupe_Groupe_x>>] }

EntryDates == {
    [startDate |-> D_2019_03, endDate |-> D_2020_06],
    [startDate |-> D_2020_06, endDate |-> D_2021_09],
    [startDate |-> D_2021_09, endDate |-> <<>>],
    [startDate |-> D_2020_06, endDate |-> NoneValue] }

WorkEntries ==
    { [name |-> t.name, position |-> t.position, summary |-> t.summary,
       highlights |-> t.highlights, startDate |-> d.startDate, endDate |-> d.endDate] :
        t \in EntryTexts, d \in EntryDates }

GenWorkLists == UNION { [1..n -> WorkEntries] : n \in 0..MaxGenWork }

GenInit ==
    /\ pc = "generate_html: start"
    /\ work_given \in GenWorkLists
    /\ resume_work = work_given
    /\ gen_anonymize \in BOOLEAN
    /\ gen_lang \in {"fr", "en"}
    /\ gen_now = [year |-> 2026, month |-> 11]
    /\ passes = [stored |-> NoPasses, page_1 |-> NoPasses, detail |-> NoPasses]
    /\ page_1 = <<>>
    /\ detail_pages = <<>>
    /\ PagesIdle
    /\ GroupIdle
    /\ AnonIdle
    /\ DatesIdle
    /\ SidebarIdle
    /\ MainIdle

\* one more call of anonymize_text behind a field
Once(anon) == IF anon THEN 1 ELSE 0

\* generate_html, lines 678-684: the entries are anonymized in place
AnonymizeWorkEntries ==
    /\ pc = "generate_html: start"
    /\ resume_work' = IF gen_anonymize
                      THEN [k \in DOMAIN resume_work |-> anonymize_entry(resume_work[k])]
                      ELSE resume_work
    /\ passes' = [passes EXCEPT
                    !.stored.name = @ + Once(gen_anonymize),
                    !.stored.position = @ + Once(gen_anonymize),
                    !.stored.summary = @ + Once(gen_anonymize),
                    !.stored.highlights = @ + Once(gen_anonymize)]
    /\ pc' = "generate_html: entries ready"
    /\ UNCHANGED <<work_given, gen_anonymize, gen_lang, gen_now, page_1,
                   detail_pages, notGenVars>>

\* render_page_1, lines 421-469: group, then one summary per company; the
\* company comes from the stored name, roles and description get the rules
\* of lines 447-449 on top of what the stored fields had
RenderCompanySummaries ==
    /\ pc = "generate_html: entries ready"
    /\ LET grouped_work_1 == group_experiences_by_company(resume_work)
       IN page_1' = [k \in DOMAIN grouped_work_1 |->
                        company_summary(resume_work, grouped_work_1[k],
                                        gen_anonymize, gen_lang, gen_now)]
    /\ passes' = [passes EXCEPT
                    !.page_1 = [name |-> passes.stored.name,
                                position |-> passes.stored.position + Once(gen_anonymize),
                                summary |-> passes.stored.summary + Once(gen_anonymize),
                                highlights |-> passes.stored.highlights + Once(gen_anonymize),
                                mission |-> 0]]
    /\ pc' = "generate_html: page 1"
    /\ UNCHANGED <<work_given, resume_work, gen_anonymize, gen_lang, gen_now,
                   detail_pages, notGenVars>>

\* render_detail_pages, lines 635-636, with render_experience_group for each
\* company: mission, position and highlights get the rules of lines 585-594
\* on top of what the stored fields had
RenderExperienceGroups ==
    /\ pc = "generate_html: page 1"
    /\ LET grouped_work_2 == group_experiences_by_company(resume_work)
       IN detail_pages' = [k \in DOMAIN grouped_work_2 |->
                              render_group(resume_work, grouped_work_2[k],
                                           gen_anonymize, gen_lang, gen_now)]
    /\ passes' = [passes EXCEPT
                    !.detail = [name |-> passes.stored.name,
                                position |-> passes.stored.position + Once(gen_anonymize),
                                summary |-> 0,
                                highlights |-> passes.stored.highlights + Once(gen_anonymize),
                                mission |-> passes.stored.name + Once(gen_anonymize)]]
    /\ pc' = "generate_html: detail pages"
    /\ UNCHANGED <<work_given, resume_work, gen_anonymize, gen_lang, gen_now,
                   page_1, notGenVars>>

GenNext == AnonymizeWorkEntries \/ RenderCompanySummaries \/ RenderExperienceGroups

SpecGen == GenInit /\ [][GenNext]_vars

\* the states in which page 1, and the detail pages, have been rendered
Page1Rendered == pc \in {"generate_html: page 1", "generate_html: detail pages"}

DetailRendered == pc = "generate_html: detail pages"

\* C12: with anonymization, the text of name, position, summary and highlights
\* that stands on page 1 and on the detail pages has been through the rule
\* list exactly once: never not at all, never more than once.
C12_RulesAppliedExactlyOnce ==
    gen_anonymize /\ work_given # <<>> =>
        /\ Page1Rendered =>
              /\ passes.page_1.name = 1
              /\ passes.page_1.position = 1
              /\ passes.page_1.summary = 1
              /\ passes.page_1.highlights = 1
        /\ DetailRendered =>
              /\ passes.detail.name = 1
              /\ passes.detail.position = 1
              /\ passes.detail.highlights = 1

\* C13: the groups of a generation are those of the work list as it was passed
\* in, whether anonymization is on or off: the same company keys, in the same
\* order, with the same entries.
C13_GroupingUnchangedByAnonymization ==
    Page1Rendered =>
        LET plain == group_experiences_by_company(work_given)
        IN /\ Len(page_1) = Len(plain)
           /\ \A k \in DOMAIN page_1 :
                 k \in DOMAIN plain =>
                    /\ page_1[k].company = plain[k].company
                    /\ page_1[k].experiences = plain[k].entries

\* the month count of a date string that parses
MonthsOf(d) == parse_date(d).year * 12 + parse_date(d).month

\* C14: the summary of a company group starts at the earliest start date of
\* its entries; it ends at their latest end date, but is ongoing (the label
\* of 'present', the duration up to now) as soon as one entry has an empty or
\* null end date.
C14_SummarySpan ==
    Page1Rendered =>
        \A k \in DOMAIN page_1 :
            LET members == { resume_work[i] : i \in Range(page_1[k].experiences) }
                first == CHOOSE e \in members :
                            \A o \in members : MonthsOf(e.startDate) <= MonthsOf(o.startDate)
                ended == { e \in members : ~Falsy(e.endDate) }
                ongoing == ended # members
                last == CHOOSE e \in ended :
                            \A o \in ended : MonthsOf(o.endDate) <= MonthsOf(e.endDate)
            IN /\ page_1[k].period[1] = format_date(first.startDate, gen_lang)
               /\ IF ongoing
                  THEN /\ page_1[k].period[2] = LABELS(gen_lang).present
                       /\ page_1[k].duration =
                             calculate_duration(first.startDate, <<>>, gen_lang, gen_now)
                  ELSE /\ page_1[k].period[2] = format_date(last.endDate, gen_lang)
                       /\ page_1[k].duration =
                             calculate_duration(first.startDate, last.endDate,
                                                gen_lang, gen_now)

-----------------------------------------------------------------------------
(* main: invocations one after the other, over the files they leave behind *)

\* a file that does not exist, a value not set
NoFile == <<"no file">>
Unset == <<"unset">>

\* what the input path may hold at an invocation: nothing, text that is not
\* JSON, or one of the resume contents
MissingInput == <<"missing">>
InvalidJson == <<"not json">>
InputFiles == {MissingInput, InvalidJson} \cup { <<"resume", c>> : c \in 1..NumContents }

\* the model names args.model or GEMINI_MODEL may give (never empty: an empty
\* name gives way to the default of line 784)
Models == { <<"f", "l", "a", "s", "h">>, <<"p", "r", "o">>, <<"p", "r", "o", " ">> }

\* get_file_hash, lines 198-204: the hex digest, different for different contents
get_file_hash(file) == <<"h", DigitChars[file[2] + 1]>>

\* f"{input_hash}:{model}", lines 796 and 811
HashRecord(hash, m) == hash \o <<":">> \o m

\* translate_resume's result for this input by this model
Translation(file, m) == <<"translation", file, m>>

\* lines 791-797
cache_is_valid(cfile, hfile, hash, m) ==
    /\ cfile # NoFile
    /\ hfile # NoFile
    /\ Strip(hfile) = HashRecord(hash, m)

MainInit ==
    /\ pc = "not running"
    /\ run = 0
    /\ cache_file = NoFile
    /\ hash_file = NoFile
    /\ input_file = Unset
    /\ model = Unset
    /\ input_hash = Unset
    /\ cache_valid = FALSE
    /\ resume_data = Unset
    /\ lang = "fr"
    /\ net_calls = 0
    /\ wrote = {}
    /\ exit_code = -1
    /\ fatal = "none"
    /\ translated_ok = FALSE
    /\ previous = Unset
    /\ PagesIdle
    /\ GroupIdle
    /\ AnonIdle
    /\ DatesIdle
    /\ SidebarIdle
    /\ GenIdle

Running == pc \notin {"not running", "exited"}

\* sys.exit(code), or the end of main
Exit(code, why) ==
    /\ pc' = "exited"
    /\ exit_code' = code
    /\ fatal' = why

\* a new invocation: nothing of the last one is left but the files
Invoke ==
    /\ ~Running
    /\ run < MaxRuns
    /\ run' = run + 1
    /\ previous' = IF translated_ok
                   THEN <<input_file, model>>
                   ELSE Unset
    /\ pc' = "main"
    /\ input_file' = Unset
    /\ model' = Unset
    /\ input_hash' = Unset
    /\ cache_valid' = FALSE
    /\ resume_data' = Unset
    /\ lang' = "fr"
    /\ net_calls' = 0
    /\ wrote' = {}
    /\ exit_code' = -1
    /\ fatal' = "none"
    /\ translated_ok' = FALSE
    /\ UNCHANGED <<cache_file, hash_file, notMainVars>>

\* lines 759-766
CheckInputFile ==
    /\ pc = "main"
    /\ \E f \in InputFiles :
          /\ input_file' = f
          /\ IF f = MissingInput
             THEN Exit(1, "missing file")
             ELSE pc' = "read" /\ UNCHANGED <<exit_code, fatal>>
    /\ UNCHANGED <<run, cache_file, hash_file, model, input_hash, cache_valid,
                   resume_data, lang, net_calls, wrote, translated_ok, previous,
                   notMainVars>>

\* lines 768-775
ReadJson ==
    /\ pc = "read"
    /\ IF input_file = InvalidJson
       THEN Exit(1, "invalid json")
            /\ UNCHANGED resume_data
       ELSE /\ resume_data' = input_file
            /\ pc' = "translate?"
            /\ UNCHANGED <<exit_code, fatal>>
    /\ UNCHANGED <<run, cache_file, hash_file, input_file, model, input_hash,
                   cache_valid, lang, net_calls, wrote, translated_ok, previous,
                   notMainVars>>

CheckTranslate_key_unchecked ==
    /\ pc = "translate?"
    /\ \E translate \in BOOLEAN, api_key \in BOOLEAN, m \in Models :
          IF ~translate
          THEN /\ pc' = "generate"
               /\ UNCHANGED <<model, input_hash, cache_valid, exit_code, fatal>>
          ELSE /\ model' = m
               /\ input_hash' = get_file_hash(input_file)
               /\ cache_valid' = cache_is_valid(cache_file, hash_file,
                                                get_file_hash(input_file), m)
               /\ pc' = "decided"
               /\ fatal' = IF api_key THEN fatal ELSE "no api key"
               /\ UNCHANGED exit_code
    /\ UNCHANGED <<run, cache_file, hash_file, input_file, resume_data, lang,
                   net_calls, wrote, translated_ok, previous, notMainVars>>

\* lines 778-797: no translation asked; no API key; or the look at the cache
CheckTranslate ==
    /\ pc = "translate?"
    /\ \E translate \in BOOLEAN, api_key \in BOOLEAN, m \in Models :
          IF ~translate
          THEN /\ pc' = "generate"
               /\ UNCHANGED <<model, input_hash, cache_valid, exit_code, fatal>>
          ELSE IF ~api_key
          THEN /\ Exit(1, "no api key")
               /\ UNCHANGED <<model, input_hash, cache_valid>>
          ELSE /\ model' = m
               /\ input_hash' = get_file_hash(input_file)
               /\ cache_valid' = cache_is_valid(cache_file, hash_file,
                                                get_file_hash(input_file), m)
               /\ pc' = "decided"
               /\ UNCHANGED <<exit_code, fatal>>
    /\ UNCHANGED <<run, cache_file, hash_file, input_file, resume_data, lang,
                   net_calls, wrote, translated_ok, previous, notMainVars>>

\* lines 799-802 and 814
UseCache ==
    /\ pc = "decided"
    /\ cache_valid
    /\ resume_data' = cache_file
    /\ lang' = "en"
    /\ pc' = "generate"
    /\ UNCHANGED <<run, cache_file, hash_file, input_file, model, input_hash,
                   cache_valid, net_calls, wrote, exit_code, fatal,
                   translated_ok, previous, notMainVars>>

\* lines 803-805 and translate_resume, lines 241-285: the package may be
\* missing; the call may fail or answer with no JSON; or it gives the translation
Translate ==
    /\ pc = "decided"
    /\ ~cache_valid
    /\ \E available \in BOOLEAN, answered \in BOOLEAN :
          IF ~available
          THEN /\ Exit(1, "no package")
               /\ UNCHANGED <<net_calls, resume_data>>
          ELSE /\ net_calls' = net_calls + 1
               /\ IF answered
                  THEN /\ resume_data' = Translation(input_file, model)
                       /\ pc' = "translated"
                       /\ UNCHANGED <<exit_code, fatal>>
                  ELSE /\ Exit(1, "translation failed")
                       /\ UNCHANGED resume_data
    /\ UNCHANGED <<run, cache_file, hash_file, input_file, model, input_hash,
                   cache_valid, lang, wrote, translated_ok, previous, notMainVars>>

\* lines 808-809
WriteCacheFile ==
    /\ pc = "translated"
    /\ cache_file' = resume_data
    /\ wrote' = wrote \cup {"cache"}
    /\ pc' = "cache written"
    /\ UNCHANGED <<run, hash_file, input_file, model, input_hash, cache_valid,
                   resume_data, lang, net_calls, exit_code, fatal,
                   translated_ok, previous, notMainVars>>

\* lines 810-814
WriteHashFile ==
    /\ pc = "cache written"
    /\ hash_file' = HashRecord(input_hash, model)
    /\ wrote' = wrote \cup {"hash"}
    /\ translated_ok' = TRUE
    /\ lang' = "en"
    /\ pc' = "generate"
    /\ UNCHANGED <<run, cache_file, input_file, model, input_hash, cache_valid,
                   resume_data, net_calls, exit_code, fatal, previous,
                   notMainVars>>

\* lines 816-846: the HTML of resume_data is written, and main ends
GenerateHtml ==
    /\ pc = "generate"
    /\ wrote' = wrote \cup {"html"}
    /\ pc' = "exited"
    /\ exit_code' = 0
    /\ UNCHANGED <<run, cache_file, hash_file, input_file, model, input_hash,
                   cache_valid, resume_data, lang, net_calls, fatal,
                   translated_ok, previous, notMainVars>>

\* the process is stopped from outside, between two steps
Interrupt ==
    /\ Running
    /\ Exit(1, "interrupted")
    /\ UNCHANGED <<run, cache_file, hash_file, input_file, model, input_hash,
                   cache_valid, resume_data, lang, net_calls, wrote,
                   translated_ok, previous, notMainVars>>

MainNext ==
    \/ Invoke
    \/ CheckInputFile
    \/ ReadJson
    \/ CheckTranslate
    \/ UseCache
    \/ Translate
    \/ WriteCacheFile
    \/ WriteHashFile
    \/ GenerateHtml
    \/ Interrupt

SpecMain == MainInit /\ [][MainNext]_vars

\* C9: an invocation that asks for the translation goes to the translation
\* service exactly when the cache file or the hash file is missing or the hash
\* file does not hold '<input hash>:<model>'; and the invocation after one that
\* translated and cached, with the same input and the same model, takes the
\* cached record.
C9_CacheDecision ==
    pc = "decided" =>
        /\ ~cache_valid <=>
              \/ cache_file = NoFile
              \/ hash_file = NoFile
              \/ hash_file # HashRecord(input_hash, model)
        /\ (/\ previous # Unset
            /\ previous = <<input_file, model>>
            => cache_valid)

FatalInputErrors == {"missing file", "invalid json", "no api key"}

\* C10: a run that ends on a missing input file, on input that is not JSON or
\* on a missing API key ends with a non-zero status, has made no call to the
\* translation service and has written no HTML, cache or hash file.
C10_FatalInputWritesNothing ==
    pc = "exited" /\ fatal \in FatalInputErrors =>
        /\ exit_code # 0
        /\ net_calls = 0
        /\ wrote = {}

C10_Witness ==
    /\ pc = "exited"
    /\ fatal = "no api key"
    /\ run = 2
    /\ cache_file # NoFile
    /\ hash_file # NoFile

\* C16: the record an invocation takes from the cache is the translation of an
\* input with this invocation's content hash, made by this invocation's model,
\* whatever earlier invocations did and wherever they stopped.
C16_CachedRecordIsCurrent ==
    pc = "generate" /\ cache_valid =>
        /\ resume_data[1] = "translation"
        /\ get_file_hash(resume_data[2]) = input_hash
        /\ resume_data[3] = model

=============================================================================
